---- MODULE Spec2Model ----
(***************************************************************************)
(* Model of movie_cli.py: the watchlist store of class MovieCLI, the       *)
(* catalog and summary calls, the two browse loops, the interactive menu   *)
(* and the one-shot click commands.                                        *)
(*                                                                         *)
(* One action is one handler run to its end: one menu choice, one          *)
(* iteration of a browse loop, one one-shot command.  The outcomes of the  *)
(* external collaborators (catalog HTTP calls, the generative-text call,   *)
(* file I/O) and the text typed by the user are the inputs, drawn with \E. *)
(***************************************************************************)
EXTENDS Integers, Sequences, FiniteSets, TLC

(* ------------------------------ bounds -------------------------------- *)
MaxPages == 2           \* largest total_pages the catalog reports

(* --------------------------- environment ------------------------------ *)
CatalogIds == {4, 44}                       \* identifiers the catalog knows
\* Titles the catalog may report for a movie.
TitlesOf(id) == IF id = 4 THEN {"Sample"} ELSE {"Other"}
AiTexts == {"generated summary"}            \* texts the model may return
Placeholder == "AI summary unavailable."
AiFailed == "<exception>"                   \* the call raised instead
InvalidIdMsg == "Invalid movie ID. Please enter a number."
DetailsMsg == "movie details"
IoOutcomes == {"ok", "open_fail", "write_fail"}

\* Identifier strings the user types or passes, as sequences of characters.
Inputs == {<<"4">>, <<"4", "4">>, <<" ", "4">>, <<"-", "4">>,
           <<"a">>, <<>>, <<"4", "a">>, <<"-", "a">>, <<" ">>,
           <<"4", "_", "4">>, <<"", "4", "\n">>, <<"", "4">>, <<"_", "4">>,
           <<"-", "-">>, <<"-", "-", "h", "e", "l", "p">>,
           <<"-", "-", "h", "e", "l", "p", "=", "4">>}

(* ------------------------- text conversions --------------------------- *)
Digits == <<"0", "1", "2", "3", "4", "5", "6", "7", "8", "9">>
IsDigit(c) == \E i \in 1..10 : Digits[i] = c
DigitVal(c) == (CHOOSE i \in 1..10 : Digits[i] = c) - 1

\* The ASCII characters str.strip() removes: space, tab, newline, vertical
\* tab, form feed, carriage return and the separators 0x1c to 0x1f.
Whitespace == {" ", "\t", "\n", "\r", "\f", "", "", "", "", ""}

\* The ASCII characters int() skips around the number: the separators 0x1c
\* to 0x1f are not among them.
IntSpace == {" ", "\t", "\n", "\r", "\f", ""}

RECURSIVE LStrip(_)
LStrip(s) == IF s # <<>> /\ s[1] \in Whitespace THEN LStrip(Tail(s)) ELSE s

RECURSIVE RStrip(_)
RStrip(s) ==
    IF s # <<>> /\ s[Len(s)] \in Whitespace
    THEN RStrip(SubSeq(s, 1, Len(s) - 1)) ELSE s

Strip(s) == RStrip(LStrip(s))

RECURSIVE SkipLeadingSpace(_)
SkipLeadingSpace(s) ==
    IF s # <<>> /\ s[1] \in IntSpace THEN SkipLeadingSpace(Tail(s)) ELSE s

RECURSIVE SkipTrailingSpace(_)
SkipTrailingSpace(s) ==
    IF s # <<>> /\ s[Len(s)] \in IntSpace
    THEN SkipTrailingSpace(SubSeq(s, 1, Len(s) - 1)) ELSE s

RECURSIVE ParseDigits(_)
ParseDigits(s) ==
    IF s = <<>> THEN 0
    ELSE ParseDigits(SubSeq(s, 1, Len(s) - 1)) * 10 + DigitVal(s[Len(s)])

RECURSIVE IntToDigits(_)
IntToDigits(n) ==
    IF n < 10 THEN <<Digits[n + 1]>>
    ELSE Append(IntToDigits(n \div 10), Digits[(n % 10) + 1])

\* s without its underscores.
RECURSIVE DropUnderscores(_)
DropUnderscores(s) ==
    IF s = <<>> THEN <<>>
    ELSE IF s[1] = "_" THEN DropUnderscores(Tail(s))
    ELSE <<s[1]>> \o DropUnderscores(Tail(s))

\* The digit part of an integer literal: digits, with single underscores
\* allowed between two digits.
IsDigitPart(b) ==
    /\ b # <<>>
    /\ IsDigit(b[1])
    /\ IsDigit(b[Len(b)])
    /\ \A i \in 1..Len(b) : IsDigit(b[i]) \/ b[i] = "_"
    /\ \A i \in 1..(Len(b) - 1) : ~(b[i] = "_" /\ b[i + 1] = "_")

\* Python's int(str): surrounding space is skipped, one sign is allowed,
\* the rest must be decimal digits, single underscores between them
\* allowed; any other string of these characters is ValueError.
int(s) ==
    LET t == SkipTrailingSpace(SkipLeadingSpace(s))
        signed == t # <<>> /\ t[1] \in {"-", "+"}
        body == IF signed THEN Tail(t) ELSE t
    IN  IF ~IsDigitPart(body)
        THEN [ok |-> FALSE, value |-> 0]
        ELSE [ok |-> TRUE,
              value |-> IF signed /\ t[1] = "-"
                        THEN 0 - ParseDigits(DropUnderscores(body))
                        ELSE ParseDigits(DropUnderscores(body))]

\* json.dump / json.load of the watchlist: an array of objects, the integer
\* id written as its decimal digits, the strings written as they are.
JsonDumpRecord(m) ==
    [id |-> IntToDigits(m.id), title |-> m.title, ai_summary |-> m.ai_summary]
JsonLoadRecord(o) ==
    [id |-> ParseDigits(o.id), title |-> o.title, ai_summary |-> o.ai_summary]
JsonDump(list) == [i \in 1..Len(list) |-> JsonDumpRecord(list[i])]
JsonLoad(doc) == [i \in 1..Len(doc) |-> JsonLoadRecord(doc[i])]

(* ------------------------------ state --------------------------------- *)
VARIABLES
    file,           \* ~/.movie_cli_watchlist.json: [kind, doc]
    proc,           \* "idle" | "menu" | "browse" | "direct"
    watched_list,   \* watched_list of the latest MovieCLI instance
    current_page,   \* browse loop: current_page
    total_pages,    \* browse loop: total_pages of the loop's own scope
    header,         \* <<p, N>> of the last "Page p of N" line
    fetched,        \* <<T>>: total page count read from the last list fetch
    action,         \* last answer to the browse prompt, after strip().lower()
    rows,           \* rows handed to tabulate by the last handler
    out,            \* messages the last handler wrote with print
    log,            \* records the last handler gave to the logger
    calls,          \* calls made by the last handler: <<name, int, outcome>>
    ret,            \* <<movie>> returned by the last movie_detail, <<>> if None
    raised,         \* exception that ended the last handler, or "none"
    exported        \* <<doc>> the last handler wrote to the export path

vars == <<file, proc, watched_list, current_page, total_pages, header, fetched,
          action, rows, out, log, calls, ret, raised, exported>>

browseVars == <<current_page, total_pages, header, fetched, action>>

(* ------------------------- Watchlist Store ---------------------------- *)
\* Mutant of load_watchlist: the try/except is missing, so every failure of
\* the load reaches the caller.
load_watchlist_unguarded(has_path, f) ==
    IF ~has_path
    THEN [value |-> <<>>, log |-> <<>>, raised |-> "AttributeError"]
    ELSE IF f.kind = "absent"
    THEN [value |-> <<>>, log |-> <<>>, raised |-> "none"]
    ELSE IF f.kind = "unreadable"
    THEN [value |-> <<>>, log |-> <<>>, raised |-> "OSError"]
    ELSE IF f.kind = "malformed"
    THEN [value |-> <<>>, log |-> <<>>, raised |-> "JSONDecodeError"]
    ELSE [value |-> JsonLoad(f.doc), log |-> <<>>, raised |-> "none"]

\* _load_watchlist, lines 49-57.  has_path tells whether self.watchlist_file
\* is already set: reading a missing attribute raises AttributeError inside
\* the try block, which the except clause turns into the empty list.
load_watchlist(has_path, f) ==
    IF ~has_path
    THEN [value |-> <<>>, log |-> <<"Error loading watchlist">>, raised |-> "none"]
    ELSE IF f.kind = "absent"
    THEN [value |-> <<>>, log |-> <<>>, raised |-> "none"]
    ELSE IF f.kind \in {"unreadable", "malformed"}
    THEN [value |-> <<>>, log |-> <<"Error loading watchlist">>, raised |-> "none"]
    ELSE [value |-> JsonLoad(f.doc), log |-> <<>>, raised |-> "none"]

\* __init__, lines 41-47: the load on line 42 runs before line 47 sets
\* self.watchlist_file.
MovieCLI_init(f) == load_watchlist(FALSE, f)

\* Mutant of save_watchlist: the try/except is missing, so a failed write
\* reaches the caller.
save_watchlist_raises(list, f, io) ==
    IF io = "ok"
    THEN [file |-> [kind |-> "json", doc |-> JsonDump(list)], log |-> <<>>,
          raised |-> "none"]
    ELSE IF io = "open_fail"
    THEN [file |-> f, log |-> <<>>, raised |-> "OSError"]
    ELSE [file |-> [kind |-> "malformed", doc |-> <<>>], log |-> <<>>,
          raised |-> "OSError"]

\* _save_watchlist, lines 59-65.  io is the outcome of the file write.
save_watchlist(list, f, io) ==
    IF io = "ok"
    THEN [file |-> [kind |-> "json", doc |-> JsonDump(list)], log |-> <<>>,
          raised |-> "none"]
    ELSE IF io = "open_fail"
    THEN [file |-> f, log |-> <<"Error saving watchlist">>, raised |-> "none"]
    ELSE [file |-> [kind |-> "malformed", doc |-> <<>>],
          log |-> <<"Error saving watchlist">>, raised |-> "none"]

HasId(list, id) == \E i \in 1..Len(list) : list[i].id = id

\* Mutant of add_to_watchlist: the membership test is missing.
add_to_watchlist_unchecked(list, movie, f, io) ==
    LET s == save_watchlist(Append(list, movie), f, io)
    IN  [watched_list |-> Append(list, movie), file |-> s.file,
         out |-> <<"Added to watchlist">>, log |-> s.log,
         calls |-> <<<<"add_to_watchlist", movie.id, movie.title>>,
                     <<"_save_watchlist", 0, io>>>>,
         raised |-> s.raised]

\* Mutant of add_to_watchlist: a duplicate replaces the stored entry
\* (last-write-wins) and is saved.
add_to_watchlist_overwrite(list, movie, f, io) ==
    LET new == IF HasId(list, movie.id)
               THEN [i \in 1..Len(list) |->
                        IF list[i].id = movie.id THEN movie ELSE list[i]]
               ELSE Append(list, movie)
        s == save_watchlist(new, f, io)
    IN  [watched_list |-> new, file |-> s.file,
         out |-> <<"Added to watchlist">>, log |-> s.log,
         calls |-> <<<<"add_to_watchlist", movie.id, movie.title>>,
                     <<"_save_watchlist", 0, io>>>>,
         raised |-> s.raised]

\* Mutant of add_to_watchlist: the save runs before the append, so the file
\* is one record behind the list.
add_to_watchlist_saves_stale(list, movie, f, io) ==
    IF ~HasId(list, movie.id)
    THEN LET s == save_watchlist(list, f, io)
         IN  [watched_list |-> Append(list, movie), file |-> s.file,
              out |-> <<"Added to watchlist">>, log |-> s.log,
              calls |-> <<<<"add_to_watchlist", movie.id, movie.title>>,
                          <<"_save_watchlist", 0, io>>>>,
              raised |-> s.raised]
    ELSE [watched_list |-> list, file |-> f, out |-> <<>>, log |-> <<>>,
          calls |-> <<<<"add_to_watchlist", movie.id, movie.title>>>>,
          raised |-> "none"]

\* add_to_watchlist, lines 132-137.
add_to_watchlist(list, movie, f, io) ==
    IF ~HasId(list, movie.id)
    THEN LET s == save_watchlist(Append(list, movie), f, io)
         IN  [watched_list |-> Append(list, movie), file |-> s.file,
              out |-> <<"Added to watchlist">>, log |-> s.log,
              calls |-> <<<<"add_to_watchlist", movie.id, movie.title>>,
                          <<"_save_watchlist", 0, io>>>>,
              raised |-> s.raised]
    ELSE [watched_list |-> list, file |-> f, out |-> <<>>, log |-> <<>>,
          calls |-> <<<<"add_to_watchlist", movie.id, movie.title>>>>,
          raised |-> "none"]

TableRow(m) == <<m.id, m.title>>

\* display_watchlist, lines 139-150.
display_watchlist(list) ==
    IF list = <<>>
    THEN [out |-> <<"Your watchlist is empty.">>, rows |-> <<>>]
    ELSE [out |-> <<"table">>, rows |-> [i \in 1..Len(list) |-> TableRow(list[i])]]

\* The path of the store file, line 47, as a user types it, and the default
\* path of an export, line 155.
StorePath == "<HOME>/.movie_cli_watchlist.json"
DefaultExportPath == "~/movie_watchlist.json"

\* export_watchlist, lines 152-162.  open(path, 'w') cuts the file at path
\* to nothing before json.dump writes: an export to the path of the store
\* file rewrites the store file.
export_watchlist(list, f, path, io) ==
    LET target == IF path = "" THEN DefaultExportPath ELSE path
        written == IF io = "ok" THEN [kind |-> "json", doc |-> JsonDump(list)]
                   ELSE IF io = "write_fail" THEN [kind |-> "malformed", doc |-> <<>>]
                   ELSE f
    IN  [file |-> IF target = StorePath THEN written ELSE f,
         target |-> target,
         exported |-> IF io = "ok" THEN <<JsonDump(list)>> ELSE <<>>,
         out |-> IF io = "ok" THEN <<"Watchlist exported">> ELSE <<>>,
         log |-> IF io = "ok" THEN <<>> ELSE <<"Export failed">>]

(* --------------- Remote Catalog Client, Summary Augmenter ------------- *)
\* What the catalog may answer to a detail request for id.
DetailResponses(id) ==
    {[ok |-> FALSE, title |-> ""]} \cup
    (IF id \in CatalogIds THEN {[ok |-> TRUE, title |-> t] : t \in TitlesOf(id)} ELSE {})

\* What the generative-text call may do.
AiOutcomes == {[ok |-> TRUE, text |-> x] : x \in AiTexts} \cup
              {[ok |-> FALSE, text |-> AiFailed]}

\* Mutant of movie_detail: the inner try/except is missing, so a failure of
\* the generative-text call ends movie_detail with that exception.
movie_detail_ai_fatal(id, resp, ai) ==
    IF ~resp.ok
    THEN [ret |-> <<>>, log |-> <<"Movie Detail Error">>,
          calls |-> <<<<"movie_detail", id, "error">>>>, raised |-> "none"]
    ELSE IF ~ai.ok
    THEN [ret |-> <<>>, log |-> <<>>,
          calls |-> <<<<"movie_detail", id, "ok">>,
                      <<"generate_content", id, ai.text>>>>,
          raised |-> "Exception"]
    ELSE [ret |-> <<[id |-> id, title |-> resp.title, ai_summary |-> ai.text]>>,
          log |-> <<>>,
          calls |-> <<<<"movie_detail", id, "ok">>,
                      <<"generate_content", id, ai.text>>>>,
          raised |-> "none"]

\* movie_detail, lines 107-130.
movie_detail(id, resp, ai) ==
    IF ~resp.ok
    THEN [ret |-> <<>>, log |-> <<"Movie Detail Error">>,
          calls |-> <<<<"movie_detail", id, "error">>>>, raised |-> "none"]
    ELSE [ret |-> <<[id |-> id, title |-> resp.title,
                     ai_summary |-> IF ai.ok THEN ai.text ELSE Placeholder]>>,
          log |-> IF ai.ok THEN <<>> ELSE <<"AI summary generation failed">>,
          calls |-> <<<<"movie_detail", id, "ok">>,
                      <<"generate_content", id, ai.text>>>>,
          raised |-> "none"]

\* What the catalog may answer to a list request: a failure, or a page with
\* or without a total_pages key; the page is empty exactly when the catalog
\* reports no pages.
ListResults == {<<>>, <<[id |-> 4, title |-> "Sample"]>>}
ListResponses ==
    {[ok |-> FALSE, total |-> <<>>, results |-> <<>>]} \cup
    {x \in {[ok |-> TRUE, total |-> t, results |-> r] :
                t \in {<<>>} \cup {<<n>> : n \in 0..MaxPages}, r \in ListResults} :
        (x.results = <<>>) <=> (x.total = <<0>>)}

\* Mutant of movie_list_request: the except clause is missing.
movie_list_request_raises(page, resp) ==
    IF resp.ok
    THEN [results |-> resp.results, total_pages |-> resp.total, log |-> <<>>,
          calls |-> <<<<"movie_list_request", page, "ok">>>>, raised |-> "none"]
    ELSE [results |-> <<>>, total_pages |-> <<>>, log |-> <<>>,
          calls |-> <<<<"movie_list_request", page, "error">>>>,
          raised |-> "RequestException"]

\* movie_list_request, lines 67-78.  total_pages is <<T>>, or <<>> when the
\* returned dict has no such key.
movie_list_request(page, resp) ==
    IF resp.ok
    THEN [results |-> resp.results, total_pages |-> resp.total, log |-> <<>>,
          calls |-> <<<<"movie_list_request", page, "ok">>>>, raised |-> "none"]
    ELSE [results |-> <<>>, total_pages |-> <<0>>,
          log |-> <<"API Request Error">>,
          calls |-> <<<<"movie_list_request", page, "error">>>>,
          raised |-> "none"]

\* dict.get(key, default)
Get(opt, default) == IF opt = <<>> THEN default ELSE opt[1]

(* ---------------------------- Browse Loop ----------------------------- *)
\* Raw answers to the browse prompt, as sequences of characters.
RawActions == {<<"n">>, <<"", "N", " ">>, <<"p">>, <<"", "P", "\n">>, <<"m">>,
               <<"Q", " ">>, <<"E">>, <<>>}

UpperCase == <<"A", "B", "C", "D", "E", "F", "G", "H", "I", "J", "K", "L", "M",
               "N", "O", "P", "Q", "R", "S", "T", "U", "V", "W", "X", "Y", "Z">>
LowerCase == <<"a", "b", "c", "d", "e", "f", "g", "h", "i", "j", "k", "l", "m",
               "n", "o", "p", "q", "r", "s", "t", "u", "v", "w", "x", "y", "z">>

\* str.lower() on one character.
LowerChar(c) ==
    IF \E i \in 1..Len(UpperCase) : UpperCase[i] = c
    THEN LowerCase[CHOOSE i \in 1..Len(UpperCase) : UpperCase[i] = c]
    ELSE c

\* input(...).strip().lower(), lines 97 and 201.
Normalize(raw) == LET t == Strip(raw) IN [i \in 1..Len(t) |-> LowerChar(t[i])]

\* Mutant of menu_fetch_and_display: the request is made for page 1 whatever
\* the current page is.
menu_fetch_and_display_first_page(page, tp, resp) ==
    LET m == movie_list_request(1, resp)
    IN  [total_pages |-> IF m.raised = "none" THEN Get(m.total_pages, 1) ELSE tp,
         fetched |-> m.total_pages,
         rows |-> [i \in 1..Len(m.results) |-> TableRow(m.results[i])],
         log |-> m.log, calls |-> m.calls, raised |-> m.raised]

\* fetch_and_display nested in the menu's browse_movies, lines 187-196:
\* "nonlocal total_pages" makes the assignment reach the loop's variable.
menu_fetch_and_display(page, tp, resp) ==
    LET m == movie_list_request(page, resp)
    IN  [total_pages |-> IF m.raised = "none" THEN Get(m.total_pages, 1) ELSE tp,
         fetched |-> m.total_pages,
         rows |-> [i \in 1..Len(m.results) |-> TableRow(m.results[i])],
         log |-> m.log, calls |-> m.calls, raised |-> m.raised]

\* fetch_and_display of MovieCLI.browse_movies, lines 84-92: without
\* "nonlocal" the assignment makes a local, the loop's total_pages stays.
direct_fetch_and_display(page, tp, resp) ==
    LET m == movie_list_request(page, resp)
    IN  [total_pages |-> tp,
         fetched |-> m.total_pages,
         rows |-> [i \in 1..Len(m.results) |-> TableRow(m.results[i])],
         log |-> m.log, calls |-> m.calls, raised |-> m.raised]

\* Mutant of menu_browse_nav: the next guard is off by one (<= for <).
menu_browse_nav_next_le(cp, tp, a) ==
    IF a = <<"n">> /\ cp <= tp
    THEN [current_page |-> cp + 1, exit |-> FALSE, out |-> <<>>]
    ELSE IF a = <<"p">> /\ cp > 1
    THEN [current_page |-> cp - 1, exit |-> FALSE, out |-> <<>>]
    ELSE IF a = <<"m">>
    THEN [current_page |-> cp, exit |-> TRUE, out |-> <<>>]
    ELSE IF a = <<"q">>
    THEN [current_page |-> cp, exit |-> TRUE, out |-> <<"Exiting browsing.">>]
    ELSE [current_page |-> cp, exit |-> FALSE,
          out |-> <<"Invalid option. Try again.">>]

\* Mutant of menu_browse_nav: the previous guard is off by one (>= for >).
menu_browse_nav_prev_ge(cp, tp, a) ==
    IF a = <<"n">> /\ cp < tp
    THEN [current_page |-> cp + 1, exit |-> FALSE, out |-> <<>>]
    ELSE IF a = <<"p">> /\ cp >= 1
    THEN [current_page |-> cp - 1, exit |-> FALSE, out |-> <<>>]
    ELSE IF a = <<"m">>
    THEN [current_page |-> cp, exit |-> TRUE, out |-> <<>>]
    ELSE IF a = <<"q">>
    THEN [current_page |-> cp, exit |-> TRUE, out |-> <<"Exiting browsing.">>]
    ELSE [current_page |-> cp, exit |-> FALSE,
          out |-> <<"Invalid option. Try again.">>]

\* The if/elif chain of the menu's browse loop, lines 203-227.
menu_browse_nav(cp, tp, a) ==
    IF a = <<"n">> /\ cp < tp
    THEN [current_page |-> cp + 1, exit |-> FALSE, out |-> <<>>]
    ELSE IF a = <<"p">> /\ cp > 1
    THEN [current_page |-> cp - 1, exit |-> FALSE, out |-> <<>>]
    ELSE IF a = <<"m">>
    THEN [current_page |-> cp, exit |-> TRUE, out |-> <<>>]
    ELSE IF a = <<"q">>
    THEN [current_page |-> cp, exit |-> TRUE, out |-> <<"Exiting browsing.">>]
    ELSE [current_page |-> cp, exit |-> FALSE,
          out |-> <<"Invalid option. Try again.">>]

\* The if/elif chain of MovieCLI.browse_movies, lines 99-104.
direct_browse_nav(cp, tp, a) ==
    IF a = <<"n">> /\ cp < tp
    THEN [current_page |-> cp + 1, exit |-> FALSE, out |-> <<>>]
    ELSE IF a = <<"p">> /\ cp > 1
    THEN [current_page |-> cp - 1, exit |-> FALSE, out |-> <<>>]
    ELSE IF a = <<"m">>
    THEN [current_page |-> cp, exit |-> TRUE, out |-> <<>>]
    ELSE [current_page |-> cp, exit |-> FALSE, out |-> <<>>]

\* One iteration of a browse loop (lines 198-227, lines 94-104): the header,
\* the fetch and the table, the prompt, the branch on the answer.  f is the
\* outcome of fetch_and_display, n the outcome of the branch.
LoopIteration(cp, tp, f, n, a) ==
    IF f.raised # "none"
    THEN [current_page |-> cp, total_pages |-> tp, header |-> <<cp, tp>>,
          fetched |-> <<>>, action |-> <<>>, rows |-> <<>>,
          out |-> <<"Page header">>, log |-> f.log, calls |-> f.calls,
          raised |-> f.raised, exit |-> TRUE]
    ELSE [current_page |-> n.current_page, total_pages |-> f.total_pages,
          header |-> <<cp, tp>>, fetched |-> f.fetched, action |-> a,
          rows |-> f.rows, out |-> <<"Page header", "table">> \o n.out,
          log |-> f.log,
          calls |-> f.calls \o <<<<"tabulate", Len(f.rows), "">>,
                                 <<"input", 0, "">>>>,
          raised |-> "none", exit |-> n.exit]

menu_browse_iteration(cp, tp, resp, raw) ==
    LET f == menu_fetch_and_display(cp, tp, resp)
        a == Normalize(raw)
    IN  LoopIteration(cp, tp, f, menu_browse_nav(cp, f.total_pages, a), a)

direct_browse_iteration(cp, tp, resp, raw) ==
    LET f == direct_fetch_and_display(cp, tp, resp)
        a == Normalize(raw)
    IN  LoopIteration(cp, tp, f, direct_browse_nav(cp, f.total_pages, a), a)

(* -------------------------- Command Surface --------------------------- *)
\* What a handler leaves behind when it touches nothing.
Base(list, f) ==
    [watched_list |-> list, file |-> f, out |-> <<>>, log |-> <<>>,
     calls |-> <<>>, ret |-> <<>>, raised |-> "none", rows |-> <<>>,
     exported |-> <<>>]

\* The body shared by the show-details handlers: movie_detail(int(movie_id))
\* and the prints under "if movie:".  A ValueError of int() is left to the
\* caller in raised.
show_details(list, f, s, resp, ai) ==
    LET p == int(s)
    IN  IF ~p.ok
        THEN [Base(list, f) EXCEPT !.calls = <<<<"int", 0, "ValueError">>>>,
                                   !.raised = "ValueError"]
        ELSE LET d == movie_detail(p.value, resp, ai)
             IN  [Base(list, f) EXCEPT
                    !.out = IF d.raised = "none" /\ d.ret # <<>>
                            THEN <<DetailsMsg>> ELSE <<>>,
                    !.log = d.log,
                    !.calls = <<<<"int", p.value, "ok">>>> \o d.calls,
                    !.ret = d.ret,
                    !.raised = d.raised]

\* The body shared by the add handlers: movie_detail(int(movie_id)) and
\* add_to_watchlist under "if movie:".
add_movie(list, f, s, resp, ai, io) ==
    LET p == int(s)
    IN  IF ~p.ok
        THEN [Base(list, f) EXCEPT !.calls = <<<<"int", 0, "ValueError">>>>,
                                   !.raised = "ValueError"]
        ELSE LET d == movie_detail(p.value, resp, ai)
             IN  IF d.raised # "none" \/ d.ret = <<>>
                 THEN [Base(list, f) EXCEPT
                         !.log = d.log,
                         !.calls = <<<<"int", p.value, "ok">>>> \o d.calls,
                         !.ret = d.ret,
                         !.raised = d.raised]
                 ELSE LET a == add_to_watchlist(list, d.ret[1], f, io)
                      IN  [Base(a.watched_list, a.file) EXCEPT
                             !.out = a.out,
                             !.log = d.log \o a.log,
                             !.calls = <<<<"int", p.value, "ok">>>> \o d.calls
                                        \o a.calls,
                             !.ret = d.ret,
                             !.raised = a.raised]

\* Mutant of except_ValueError: the except clause is missing.
except_ValueError_absent(h) == h

\* "except ValueError" of the menu, lines 240-241 and 250-251.
except_ValueError(h) ==
    IF h.raised = "ValueError"
    THEN [h EXCEPT !.out = <<InvalidIdMsg>>, !.raised = "none"]
    ELSE h

\* h, with the handler that ran it named first in its calls.
Named(name, n, h) == [h EXCEPT !.calls = <<<<name, n, "">>>> \o h.calls]

\* Menu choice 2, lines 230-241.
menu_choice2(list, f, s, resp, ai) ==
    Named("menu", 2, except_ValueError(show_details(list, f, s, resp, ai)))

\* Menu choice 3, lines 243-251.
menu_choice3(list, f, s, resp, ai, io) ==
    Named("menu", 3, except_ValueError(add_movie(list, f, s, resp, ai, io)))

\* click's parser on the one word given for MOVIE_ID.  "--" ends the options
\* and leaves the argument missing; any other word that starts with "-" and
\* is longer than one character goes to the option parser, which knows only
\* --help, and --help takes no value.
HelpWord == <<"-", "-", "h", "e", "l", "p">>
ClickTerminator(s) == s = <<"-", "-">>
ClickHelp(s) == s = HelpWord
ClickNoValue(s) == Len(s) > Len(HelpWord) /\ SubSeq(s, 1, Len(HelpWord) + 1) = HelpWord \o <<"=">>
ClickOption(s) ==
    /\ Len(s) > 1
    /\ s[1] = "-"
    /\ ~ClickTerminator(s)
    /\ ~ClickHelp(s)
    /\ ~ClickNoValue(s)

\* What click writes when it ends the command before its body, <<>> when
\* the word reaches the body as movie_id.
ClickEarlyExit(s) ==
    IF ClickTerminator(s) THEN <<"Error: Missing argument 'MOVIE_ID'.">>
    ELSE IF ClickHelp(s) THEN <<"help text">>
    ELSE IF ClickNoValue(s) THEN <<"Error: Option '--help' does not take a value.">>
    ELSE IF ClickOption(s) THEN <<"Error: No such option">>
    ELSE <<>>

ClickExit(list, f, s) == [Base(list, f) EXCEPT !.out = ClickEarlyExit(s)]

\* A one-shot command constructs its own MovieCLI first.
Constructed(f) ==
    LET c == MovieCLI_init(f)
    IN  [Base(c.value, f) EXCEPT !.log = c.log,
                                 !.calls = <<<<"MovieCLI", 0, "">>>>,
                                 !.raised = c.raised]

\* h run by an instance that was constructed as c.
After(c, h) ==
    IF c.raised # "none" THEN c
    ELSE [h EXCEPT !.log = c.log \o h.log, !.calls = c.calls \o h.calls]

\* One-shot command details, lines 287-298.
details(f, s, resp, ai) ==
    LET c == Constructed(f)
    IN  Named("details", 0, After(c, show_details(c.watched_list, f, s, resp, ai)))

\* One-shot command watchlist, lines 300-308.
watchlist(f, s, resp, ai, io) ==
    LET c == Constructed(f)
    IN  Named("watchlist", 0,
              After(c, add_movie(c.watched_list, f, s, resp, ai, io)))

\* One-shot command list_watchlist, lines 310-314.
list_watchlist(f) ==
    LET c == Constructed(f)
        d == display_watchlist(c.watched_list)
    IN  Named("list_watchlist", 0,
              After(c, [Base(c.watched_list, f) EXCEPT !.out = d.out,
                                                      !.rows = d.rows]))

(* ------------------------------ actions ------------------------------- *)
\* The state after a handler: the process goes on at p, unless the handler
\* ended with an unhandled exception, which ends the process.
Commit(h, p) ==
    /\ watched_list' = h.watched_list
    /\ file' = h.file
    /\ out' = h.out
    /\ log' = h.log
    /\ calls' = h.calls
    /\ ret' = h.ret
    /\ raised' = h.raised
    /\ rows' = h.rows
    /\ exported' = h.exported
    /\ proc' = IF h.raised = "none" THEN p ELSE "idle"

NoAi == [ok |-> FALSE, text |-> AiFailed]
AiFor(resp) == IF resp.ok THEN AiOutcomes ELSE {NoAi}
IoFor(resp) == IF resp.ok THEN IoOutcomes ELSE {"ok"}
ExportPaths == {"", "custom.json", StorePath}
OtherChoices == {"7", "", " 6"}

Init ==
    /\ file \in {[kind |-> k, doc |-> <<>>] : k \in {"absent", "unreadable", "malformed"}}
    /\ proc = "idle"
    /\ watched_list = <<>>
    /\ current_page = 1
    /\ total_pages = 1
    /\ header = <<>>
    /\ fetched = <<>>
    /\ action = <<>>
    /\ rows = <<>>
    /\ out = <<>>
    /\ log = <<>>
    /\ calls = <<>>
    /\ ret = <<>>
    /\ raised = "none"
    /\ exported = <<>>

\* A handler outside the browse loops: the loops' locals (current_page,
\* total_pages, action) do not exist there and read as at loop entry.
NoLoop ==
    /\ current_page' = 1
    /\ total_pages' = 1
    /\ header' = <<>>
    /\ fetched' = <<>>
    /\ action' = <<>>

\* interactive_menu, line 166: the menu constructs its MovieCLI.
StartMenu ==
    /\ proc = "idle"
    /\ Commit(Named("interactive_menu", 0, Constructed(file)), "menu")
    /\ NoLoop

Choice2(s) ==
    /\ proc = "menu"
    /\ \E resp \in DetailResponses(int(s).value) : \E ai \in AiFor(resp) :
          Commit(menu_choice2(watched_list, file, s, resp, ai), "menu")
    /\ NoLoop

Choice3(s) ==
    /\ proc = "menu"
    /\ \E resp \in DetailResponses(int(s).value) : \E ai \in AiFor(resp) :
       \E io \in IoFor(resp) :
          Commit(menu_choice3(watched_list, file, s, resp, ai, io), "menu")
    /\ NoLoop

\* Menu choice 4, lines 253-255.
Choice4 ==
    /\ proc = "menu"
    /\ LET d == display_watchlist(watched_list)
       IN  Commit([Base(watched_list, file) EXCEPT !.out = d.out, !.rows = d.rows,
                     !.calls = <<<<"menu", 4, "">>>>], "menu")
    /\ NoLoop

\* Menu choice 5, lines 257-260.
Choice5(path, io) ==
    /\ proc = "menu"
    /\ LET e == export_watchlist(watched_list, file, path, io)
       IN  Commit([Base(watched_list, e.file) EXCEPT !.out = e.out, !.log = e.log,
                     !.exported = e.exported,
                     !.calls = <<<<"menu", 5, "">>,
                                 <<"export_watchlist", 0, e.target>>>>], "menu")
    /\ NoLoop

\* Menu choice 6, lines 262-264.
Choice6 ==
    /\ proc = "menu"
    /\ Commit([Base(watched_list, file) EXCEPT
                 !.out = <<"Thank you for using Movie CLI!">>,
                 !.calls = <<<<"menu", 6, "">>>>], "idle")
    /\ NoLoop

\* Any other answer to the menu prompt, lines 266-267.
ChoiceOther(c) ==
    /\ proc = "menu"
    /\ c \in OtherChoices
    /\ Commit([Base(watched_list, file) EXCEPT
                 !.out = <<"Invalid choice. Please try again.">>,
                 !.calls = <<<<"menu", 0, c>>>>], "menu")
    /\ NoLoop

CmdDetails(s) ==
    /\ proc = "idle"
    /\ IF ClickEarlyExit(s) # <<>>
       THEN Commit(ClickExit(watched_list, file, s), "idle")
       ELSE \E resp \in DetailResponses(int(s).value) : \E ai \in AiFor(resp) :
               Commit(details(file, s, resp, ai), "idle")
    /\ NoLoop

CmdWatchlist(s) ==
    /\ proc = "idle"
    /\ IF ClickEarlyExit(s) # <<>>
       THEN Commit(ClickExit(watched_list, file, s), "idle")
       ELSE \E resp \in DetailResponses(int(s).value) : \E ai \in AiFor(resp) :
            \E io \in IoFor(resp) :
               Commit(watchlist(file, s, resp, ai, io), "idle")
    /\ NoLoop

CmdListWatchlist ==
    /\ proc = "idle"
    /\ Commit(list_watchlist(file), "idle")
    /\ NoLoop

\* One-shot command browse, lines 276-285: one fetch of page 1, one line per
\* movie, no loop.
browse(f, resp) ==
    LET c == Constructed(f)
        m == movie_list_request(1, resp)
    IN  Named("browse", 0,
              After(c, [Base(c.watched_list, f) EXCEPT
                          !.out = [i \in 1..Len(m.results) |-> "movie line"],
                          !.log = m.log, !.calls = m.calls,
                          !.raised = m.raised]))

\* The state after one iteration of a browse loop that returns to p.
CommitLoop(r, here, p) ==
    /\ current_page' = r.current_page
    /\ total_pages' = r.total_pages
    /\ header' = r.header
    /\ fetched' = r.fetched
    /\ action' = r.action
    /\ rows' = r.rows
    /\ out' = r.out
    /\ log' = r.log
    /\ calls' = r.calls
    /\ raised' = r.raised
    /\ ret' = <<>>
    /\ exported' = <<>>
    /\ proc' = IF r.raised # "none" THEN "idle" ELSE IF r.exit THEN p ELSE here
    /\ UNCHANGED <<file, watched_list>>

\* Entering a browse loop: current_page = 1, total_pages = 1.
EnterLoop ==
    /\ current_page' = 1
    /\ total_pages' = 1
    /\ header' = <<>>
    /\ fetched' = <<>>
    /\ action' = <<>>

\* Menu choice 1, lines 179-185 and 228: the nested browse_movies starts.
Choice1 ==
    /\ proc = "menu"
    /\ Commit([Base(watched_list, file) EXCEPT
                 !.calls = <<<<"menu", 1, "">>, <<"browse_movies", 0, "menu">>>>],
              "browse")
    /\ EnterLoop

BrowseStep(resp, raw) ==
    /\ proc = "browse"
    /\ CommitLoop(menu_browse_iteration(current_page, total_pages, resp, raw),
                  "browse", "menu")

\* MovieCLI().browse_movies(category) called directly, lines 80-83.
DirectStart ==
    /\ proc = "idle"
    /\ LET c == Constructed(file)
       IN  Commit([c EXCEPT !.calls = c.calls \o <<<<"browse_movies", 0, "direct">>>>],
                  "direct")
    /\ EnterLoop

DirectStep(resp, raw) ==
    /\ proc = "direct"
    /\ CommitLoop(direct_browse_iteration(current_page, total_pages, resp, raw),
                  "direct", "idle")

CmdBrowse(resp) ==
    /\ proc = "idle"
    /\ Commit(browse(file, resp), "idle")
    /\ fetched' = IF resp.ok THEN resp.total ELSE <<0>>
    /\ current_page' = 1
    /\ total_pages' = 1
    /\ header' = <<>>
    /\ action' = <<>>

Next ==
    \/ StartMenu
    \/ \E s \in Inputs : Choice2(s)
    \/ \E s \in Inputs : Choice3(s)
    \/ Choice4
    \/ \E path \in ExportPaths, io \in IoOutcomes : Choice5(path, io)
    \/ Choice6
    \/ \E c \in OtherChoices : ChoiceOther(c)
    \/ Choice1
    \/ \E resp \in ListResponses, raw \in RawActions : BrowseStep(resp, raw)
    \/ \E s \in Inputs : CmdDetails(s)
    \/ \E s \in Inputs : CmdWatchlist(s)
    \/ CmdListWatchlist
    \/ \E resp \in ListResponses : CmdBrowse(resp)
    \/ DirectStart
    \/ \E resp \in ListResponses, raw \in RawActions : DirectStep(resp, raw)

Spec == Init /\ [][Next]_vars

\* The browse loops and the browse command alone, over an empty watchlist.
NextBrowse ==
    \/ StartMenu
    \/ Choice1
    \/ \E resp \in ListResponses, raw \in RawActions : BrowseStep(resp, raw)
    \/ Choice6
    \/ DirectStart
    \/ \E resp \in ListResponses, raw \in RawActions : DirectStep(resp, raw)
    \/ \E resp \in ListResponses : CmdBrowse(resp)

SpecBrowse == Init /\ [][NextBrowse]_vars

(* ------------------------------ claims -------------------------------- *)
Called(cs, name) == \E i \in 1..Len(cs) : cs[i][1] = name
CalledWith(cs, name, outcome) ==
    \E i \in 1..Len(cs) : cs[i][1] = name /\ cs[i][3] = outcome
CountId(list, id) == Cardinality({i \in 1..Len(list) : list[i].id = id})

\* C1: a successful save followed by the load of a freshly constructed
\* MovieCLI gives back the saved records: right after the menu constructed
\* its MovieCLI over a store file that a save wrote, watched_list holds the
\* records of that file.
C1_SaveLoadRoundTrip ==
    (calls = <<<<"interactive_menu", 0, "">>, <<"MovieCLI", 0, "">>>>
        /\ file.kind = "json")
    => watched_list = JsonLoad(file.doc)

\* C2: no two entries of watched_list have the same id, in every state
\* reached by constructions and adds.
C2_UniqueIds ==
    \A i, j \in 1..Len(watched_list) :
        i # j => watched_list[i].id # watched_list[j].id

\* C2 witness: an add of an id that is already stored has run, and the list
\* holds that id once.
C2_Witness ==
    \E i \in 1..Len(calls) :
        /\ calls[i][1] = "add_to_watchlist"
        /\ ~Called(calls, "_save_watchlist")
        /\ CountId(watched_list, calls[i][2]) = 1

\* The list held by the instance that runs the next handler: the menu's
\* instance, or the one a one-shot command constructs.
HeldList == IF proc = "menu" THEN watched_list ELSE MovieCLI_init(file).value

\* C3: add_to_watchlist with an id already in the list leaves the list and
\* the store file exactly as they were and calls no save; with a new id it
\* appends the record at the end and calls _save_watchlist.
C3_DuplicateAddNoOp ==
    [][\A i \in 1..Len(calls') :
          calls'[i][1] = "add_to_watchlist" =>
             IF HasId(HeldList, calls'[i][2])
             THEN /\ watched_list' = HeldList
                  /\ file' = file
                  /\ ~Called(calls', "_save_watchlist")
             ELSE /\ watched_list' = Append(HeldList, ret'[1])
                  /\ Called(calls', "_save_watchlist")]_vars

\* C3 witness: a second record is stored, and an add of the first one's id
\* with another summary has run without a save; the first record is kept.
C3_Witness ==
    /\ Len(watched_list) = 2
    /\ ~Called(calls, "_save_watchlist")
    /\ Len(ret) = 1
    /\ \E i \in 1..Len(calls) :
          /\ calls[i][1] = "add_to_watchlist"
          /\ watched_list[1].id = calls[i][2]
          /\ watched_list[1].ai_summary # ret[1].ai_summary

\* The last handler was a show-details one: menu choice 2 or command details.
ShowDetailsRan ==
    (Len(calls) > 0 /\ calls[1] = <<"menu", 2, "">>) \/ Called(calls, "details")

\* C5: when the catalog reports the identifier as not found, movie_detail
\* returns None without raising and the show-details handler (menu choice 2,
\* command details) writes a message for the user.
C5_NotFoundReported ==
    (ShowDetailsRan /\ CalledWith(calls, "movie_detail", "error"))
    => (ret = <<>> /\ raised = "none" /\ out # <<>>)

\* C6: for a movie the catalog returned, movie_detail returns a record whose
\* ai_summary is the generated text, or the placeholder when the generation
\* failed, and no exception leaves the handler.
C6_AugmentationNeverFails ==
    CalledWith(calls, "movie_detail", "ok") =>
        /\ raised = "none"
        /\ Len(ret) = 1
        /\ \E i \in 1..Len(calls) :
              /\ calls[i][1] = "generate_content"
              /\ ret[1].ai_summary =
                    IF calls[i][3] = AiFailed THEN Placeholder ELSE calls[i][3]

\* C6 witness: the generation failed and the returned record carries the
\* placeholder.
C6_Witness ==
    /\ CalledWith(calls, "generate_content", AiFailed)
    /\ Len(ret) = 1
    /\ ret[1].ai_summary = Placeholder

\* C7: in every entry mode that takes an identifier, one that does not parse
\* as an integer is reported to the user, nothing is fetched, the watchlist
\* and its file stay as they were, no exception ends the process and the
\* menu goes on.
C7_InvalidIdReported ==
    [][CalledWith(calls', "int", "ValueError") =>
          /\ out' # <<>>
          /\ raised' = "none"
          /\ ~Called(calls', "movie_detail")
          /\ file' = file
          /\ watched_list' = HeldList
          /\ (proc = "menu" => proc' = "menu")]_vars

LoadErrors == {"AttributeError", "OSError", "JSONDecodeError"}

\* C10: constructing a MovieCLI over an absent, unreadable or malformed store
\* file raises nothing and gives the empty watched_list; an add that follows
\* leaves exactly one record, the added one, in the list and, when the save
\* succeeds, in the file.
C10_LoadNeverFails ==
    [][(Called(calls', "MovieCLI")
          /\ file.kind \in {"absent", "unreadable", "malformed"}) =>
          /\ raised' \notin LoadErrors
          /\ (~Called(calls', "add_to_watchlist") => watched_list' = <<>>)
          /\ (Called(calls', "interactive_menu") => proc' = "menu")
          /\ \A i \in 1..Len(calls') :
                calls'[i][1] = "add_to_watchlist" =>
                   /\ Len(watched_list') = 1
                   /\ watched_list'[1].id = calls'[i][2]
                   /\ (CalledWith(calls', "_save_watchlist", "ok") =>
                          /\ file'.kind = "json"
                          /\ JsonLoad(file'.doc) = watched_list')]_vars

\* C10 witness: a one-shot add has constructed its MovieCLI and stored one
\* record in the list and in the file.
C10_Witness ==
    /\ Called(calls, "MovieCLI")
    /\ Called(calls, "add_to_watchlist")
    /\ Len(watched_list) = 1
    /\ file.kind = "json"
    /\ JsonLoad(file.doc) = watched_list

\* The last handler was one iteration of a browse loop: it began with the
\* fetch of the current page.
LoopStep(cs) == Len(cs) > 0 /\ cs[1][1] = "movie_list_request"

\* C4: a list request that hits a transport or HTTP error returns no results
\* and total_pages 0 without raising, and the browse loop that issued it
\* shows an empty table and goes on to its prompt, from any page.
C4_ListFailureDegrades ==
    CalledWith(calls, "movie_list_request", "error") =>
        /\ raised = "none"
        /\ fetched = <<0>>
        /\ rows = <<>>
        /\ (LoopStep(calls) =>
               /\ calls[2] = <<"tabulate", 0, "">>
               /\ calls[3] = <<"input", 0, "">>
               /\ "table" \in {out[i] : i \in 1..Len(out)})

\* C4 witness: the fetch of a page after the first failed inside the menu's
\* browse loop, and the loop is at its prompt again.
C4_Witness ==
    /\ proc = "browse"
    /\ LoopStep(calls)
    /\ calls[1][2] > 1
    /\ calls[1][3] = "error"
    /\ rows = <<>>

\* C8: in either browse loop, when the current page is not below the total
\* page count the fetch of this iteration reported, the answer "n" leaves
\* the current page as it is.
C8_NextStopsAtLastPage ==
    [][(proc \in {"browse", "direct"} /\ LoopStep(calls') /\ action' = <<"n">>
          /\ current_page >= Get(fetched', 1))
       => current_page' = current_page]_vars

\* C8 witness: the total reported by the fetch shrank below the current page
\* of the menu's browse loop, "n" was answered and the page stayed.
C8_Witness ==
    /\ proc = "browse"
    /\ LoopStep(calls)
    /\ action = <<"n">>
    /\ header[1] > 1
    /\ fetched # <<>>
    /\ fetched[1] > 0
    /\ fetched[1] < header[1]
    /\ current_page = header[1]

\* C9: the current page of a browse loop is never below 1; the answer "p"
\* leaves page 1 as it is and moves page p > 1 to p - 1.
C9_PreviousStopsAtFirstPage ==
    /\ [](current_page >= 1)
    /\ [][(proc \in {"browse", "direct"} /\ LoopStep(calls') /\ action' = <<"p">>)
          => current_page' = IF current_page > 1 THEN current_page - 1
                             ELSE current_page]_vars

\* C9 witness: "p" was answered on page 2 of the menu's browse loop, which is
\* now on page 1.
C9_Witness ==
    /\ proc = "browse"
    /\ LoopStep(calls)
    /\ action = <<"p">>
    /\ header[1] = 2
    /\ current_page = 1

\* The rows display_watchlist shows for a list.
RowsOf(list) == [i \in 1..Len(list) |-> TableRow(list[i])]
IsPrefix(s, u) == Len(s) <= Len(u) /\ SubSeq(u, 1, Len(s)) = s
SaveFailed(cs) ==
    \E i \in 1..Len(cs) : cs[i][1] = "_save_watchlist" /\ cs[i][3] # "ok"

\* One step of the program as C11 requires it.
C11_Step ==
       /\ SaveFailed(calls') =>
             /\ raised' = "none"
             /\ Len(ret') = 1
             /\ watched_list' = Append(HeldList, ret'[1])
             /\ (proc = "menu" => proc' = "menu")
       /\ (proc = "menu" /\ proc' = "menu") => IsPrefix(watched_list, watched_list')
       /\ (Len(calls') > 0 /\ calls'[1] = <<"menu", 4, "">>) =>
             rows' = RowsOf(watched_list)
       /\ (Len(calls') > 0 /\ calls'[1] = <<"menu", 5, "">> /\ exported' # <<>>) =>
             exported'[1] = JsonDump(watched_list)

\* C11: when add_to_watchlist appends a record and the write of the store
\* file fails, nothing is raised, the record is the last of watched_list and
\* the menu goes on; as long as the menu runs, watched_list keeps what it
\* holds, and list-watchlist and export show all of it.
C11_SaveFailureNonFatal == [][C11_Step]_vars

\* C11 witness: the menu lists a record although no save ever reached the
\* store file.
C11_Witness ==
    /\ proc = "menu"
    /\ Len(calls) > 0
    /\ calls[1] = <<"menu", 4, "">>
    /\ rows # <<>>
    /\ rows = RowsOf(watched_list)
    /\ file.kind = "absent"

\* One step of the program as C12 requires it.
C12_Step ==
       proc \in {"menu", "browse"} =>
          /\ raised' = "none"
          /\ IF proc = "menu" /\ calls' = <<<<"menu", 6, "">>>>
             THEN proc' = "idle"
             ELSE proc' \in {"menu", "browse"}

\* C12: the interactive menu ends only with choice 6: every other step of
\* the menu or of its browse loop leaves the process at the menu prompt or
\* in the browse loop, with no exception.
C12_MenuUntilExit == [][C12_Step]_vars

\* C12 witness: a non-numeric identifier was answered at choice 3 and the
\* menu is at its prompt again.
C12_Witness ==
    /\ proc = "menu"
    /\ Len(calls) > 0
    /\ calls[1] = <<"menu", 3, "">>
    /\ CalledWith(calls, "int", "ValueError")
    /\ out = <<InvalidIdMsg>>

\* One step of the program as C13 requires it.
C13_Step ==
       /\ CalledWith(calls', "_save_watchlist", "ok") =>
             /\ file'.kind = "json"
             /\ file'.doc = JsonDump(watched_list')
             /\ JsonLoad(file'.doc) = watched_list'
       /\ ~Called(calls', "add_to_watchlist") =>
             watched_list' = IF Called(calls', "MovieCLI")
                             THEN MovieCLI_init(file).value
                             ELSE watched_list

\* C13: after an add whose write succeeds the store file holds exactly the
\* records of watched_list, in its order; a handler that does not call
\* add_to_watchlist (browse, show-details, list-watchlist, export) leaves
\* watched_list as the instance holds it.
C13_PersistedAfterMutation == [][C13_Step]_vars

\* C13 witness: the second record of the session was added and saved; the
\* file holds both in the list's order.
C13_Witness ==
    /\ CalledWith(calls, "_save_watchlist", "ok")
    /\ Len(watched_list) = 2
    /\ file.kind = "json"
    /\ JsonLoad(file.doc) = watched_list

\* C14: in both browse loops, when the fetch of the current page p reported
\* a total above p, the answer "n" moves the loop to page p + 1.
C14_NextAdvances ==
    [][(proc \in {"browse", "direct"} /\ LoopStep(calls') /\ action' = <<"n">>
          /\ current_page < Get(fetched', 1))
       => current_page' = current_page + 1]_vars

\* C15: in both browse loops the answers "m" and "q" end the loop, and no
\* other answer does.
C15_MenuAndQuitExit ==
    [][(proc \in {"browse", "direct"} /\ LoopStep(calls'))
       => ((proc' # proc) <=> (action' \in {<<"m">>, <<"q">>}))]_vars

MaxRun == 2     \* longest sequence of prompt answers compared

\* What a user sees of a run of a browse loop from (cp, tp) over a sequence
\* of <<catalog answer, raw prompt answer>>: per iteration the page fetched,
\* the page after the answer, and whether the loop ended.
RECURSIVE MenuTrace(_, _, _)
MenuTrace(cp, tp, run) ==
    IF run = <<>> THEN <<>>
    ELSE LET r == menu_browse_iteration(cp, tp, run[1][1], run[1][2])
         IN  <<<<r.calls[1][2], r.current_page, r.exit>>>> \o
             (IF r.exit THEN <<>>
              ELSE MenuTrace(r.current_page, r.total_pages, Tail(run)))

RECURSIVE DirectTrace(_, _, _)
DirectTrace(cp, tp, run) ==
    IF run = <<>> THEN <<>>
    ELSE LET r == direct_browse_iteration(cp, tp, run[1][1], run[1][2])
         IN  <<<<r.calls[1][2], r.current_page, r.exit>>>> \o
             (IF r.exit THEN <<>>
              ELSE DirectTrace(r.current_page, r.total_pages, Tail(run)))

\* C16: started alike, the menu's browse loop and MovieCLI.browse_movies
\* fetch the same pages, visit the same pages and end on the same answer,
\* for every sequence of catalog answers and prompt answers.
C16_SameStateMachine ==
    (proc \in {"browse", "direct"} /\ header = <<>>) =>
        \A n \in 0..MaxRun : \A run \in [1..n -> ListResponses \X RawActions] :
            MenuTrace(current_page, total_pages, run)
                = DirectTrace(current_page, total_pages, run)

InvalidOptionMsg == "Invalid option. Try again."

\* One step of the program as C17 requires it.
C17_Step ==
       (proc = "browse" /\ LoopStep(calls')
          /\ (\/ action' = <<"n">> /\ current_page >= Get(fetched', 1)
              \/ action' = <<"p">> /\ current_page = 1))
       => /\ current_page' = current_page
          /\ \A i \in 1..Len(out') : out'[i] # InvalidOptionMsg

\* C17: in the menu's browse loop "n" on the last page and "p" on page 1 are
\* silent: they are not answered with the invalid-option message; any answer
\* leaves the page as it is unless it is an "n" or "p" that moves.
C17_SilentBoundary == [][C17_Step]_vars

\* One step of the program as C18 requires it.
C18_Step ==
       proc \in {"browse", "direct"} =>
          /\ Len(calls') = 3
          /\ calls'[1][1] = "movie_list_request"
          /\ calls'[1][2] = current_page
          /\ calls'[2] = <<"tabulate", Len(rows'), "">>
          /\ calls'[3] = <<"input", 0, "">>
          /\ (calls'[1][3] = "error" => rows' = <<>>)
          /\ header'[1] = current_page

\* C18: every iteration of a browse loop starts with a fresh list request
\* for the current page, renders the rows of that answer and only then
\* prompts; nothing is shown without a request.
C18_FetchEveryIteration == [][C18_Step]_vars

\* C18 witness: page 2 was fetched and rendered in the menu's browse loop
\* and "p" was answered, so the next iteration fetches page 1 again.
C18_Witness ==
    /\ proc = "browse"
    /\ LoopStep(calls)
    /\ calls[1] = <<"movie_list_request", 2, "ok">>
    /\ rows # <<>>
    /\ action = <<"p">>
    /\ current_page = 1

\* C19: a successful save keeps every record an earlier run saved: the file
\* after the save holds all records the file held before it.
C19_NoLossAcrossRuns ==
    [][(CalledWith(calls', "_save_watchlist", "ok") /\ file.kind = "json")
       => \A i \in 1..Len(file.doc) :
             \E j \in 1..Len(file'.doc) : file'.doc[j] = file.doc[i]]_vars

\* C20: the N of the "Page p of N" line the menu's browse loop writes is
\* the total page count of the fetch whose rows follow it.
C20_HeaderMatchesFetch ==
    [][(proc = "browse" /\ LoopStep(calls'))
       => header' = <<current_page, Get(fetched', 1)>>]_vars

====
